---- MODULE Spec2Model ----
(***************************************************************************)
(* The Claude assistant client of Zaelot Developer Studio:                 *)
(*   - ClaudeApiClient, direct variant (src/unnamed/part_001): builds the  *)
(*     wire request and issues it through IRequestService;                 *)
(*   - ClaudeApiClient, IPC variant (src/vs/code/electron-main/            *)
(*     claudeIpc.ts): relays the call to the main process over the         *)
(*     'claude' channel or over ipcRenderer.invoke;                        *)
(*   - ClaudeMainService, the main-process executor (the TypeScript        *)
(*     listing that ends src/DISTRIBUTION.md), with its streaming decoder. *)
(*                                                                         *)
(* JavaScript values: an optional value is a tuple, <<>> for undefined and *)
(* <<v>> for v.  A temperature is counted in tenths (7 is 0.7).            *)
(*                                                                         *)
(* A call without a cancellation token behaves in every branch as a call   *)
(* whose token is never signalled (token?.isCancellationRequested), so the *)
(* token is one boolean.  The body text of a reply is what                 *)
(* response.stream.toString() and response.text() give.  The tools and     *)
(* tool_choice fields are passed through unchanged and are left out.       *)
(*                                                                         *)
(* The specifications share the variables: Spec runs calls end to end,     *)
(* SpecWire builds the wire request over the inputs of sendMessage,        *)
(* SpecDecode runs the streaming decoder over bodies and their reads,      *)
(* SpecChannel runs ClaudeChannel.call over commands and argument lists,   *)
(* SpecConfig interleaves configure() with one call over configurations    *)
(* that differ in every field, and SpecProvider and SpecChat run the       *)
(* ClaudeLanguageModelProvider (src/unnamed/part_002) on top of the client.*)
(* SpecMigration runs MigrationService.performAutomaticMigration          *)
(* (src/vs/workbench/contrib/zaelot/browser/migrationService.ts).          *)
(*                                                                         *)
(* An Emitter runs its listeners inside fire().  An error thrown in the    *)
(* main process reaches the renderer with its message unchanged, as the    *)
(* handlers' `throw error` passes it on.                                   *)
(***************************************************************************)
EXTENDS Integers, Sequences, FiniteSets, TLC

VARIABLES
    deployment,     \* which client runs, and whether electronBridge.ipcRenderer exists
    configuration,  \* ClaudeApiClient._configuration
    calls,          \* the sendMessage / testConnection calls, by call id
    httpCalls,      \* network requests issued so far (requestService.request, fetch)
    ipcCalls,       \* cross-process calls issued so far (channel.call, ipcRenderer.invoke)
    listeners,      \* calls whose 'claude:streamingProgress' listener is registered
    wire,           \* request construction, one set of inputs at a time
    dec,            \* one run of ClaudeMainService._handleStreamingResponse
    chan,           \* one call of ClaudeChannel.call
    provider,       \* the ClaudeLanguageModelProvider built on the client, if any
    migration       \* one call of MigrationService.performAutomaticMigration

vars == <<deployment, configuration, calls, httpCalls, ipcCalls, listeners, wire, dec, chan, provider,
         migration>>

-----------------------------------------------------------------------------
(* JavaScript operators on optional values *)

Undefined == <<>>

Some(v) == <<v>>

\* !!v for an optional number: undefined and 0 are falsy
TruthyNumber(v) == v # Undefined /\ v[1] # 0

\* !!v for an optional string: undefined and "" are falsy
TruthyString(v) == v # Undefined /\ v[1] # ""

\* a || b, on numbers
OrNumber(a, b) == IF TruthyNumber(a) THEN a ELSE b

\* a || b, on strings
OrString(a, b) == IF TruthyString(a) THEN a ELSE b

\* a ?? b
Nullish(a, b) == IF a # Undefined THEN a ELSE b

RECURSIVE Concat(_)
\* texts.join(''), and what += builds up
Concat(texts) == IF texts = <<>> THEN "" ELSE Head(texts) \o Concat(Tail(texts))

-----------------------------------------------------------------------------
(* Program constants *)

DefaultMaxTokens == 4096

\* 0.7, in tenths
DefaultTemperature == 7

\* the max_tokens of the connection test
TestMaxTokens == 10

DefaultBaseUrl == "https://api.anthropic.com"

TestModel == "claude-sonnet-4-20250514"

ExecDefaultModel == "claude-3-5-sonnet-20241220"

-----------------------------------------------------------------------------
(* Request construction *)

\* the filter left out: every message stays in the turn array
KeepAllMessages(messages) == messages

RECURSIVE SelectNonSystem(_)
\* messages.filter(m => m.role !== 'system')
SelectNonSystem(messages) ==
    IF messages = <<>> THEN <<>>
    ELSE IF Head(messages).role # "system"
         THEN <<Head(messages)>> \o SelectNonSystem(Tail(messages))
         ELSE SelectNonSystem(Tail(messages))

RECURSIVE FindSystemContent(_)
\* messages.find(m => m.role === 'system')?.content
FindSystemContent(messages) ==
    IF messages = <<>> THEN Undefined
    ELSE IF Head(messages).role = "system"
         THEN Some(Head(messages).content)
         ELSE FindSystemContent(Tail(messages))

\* options.maxTokens || this._configuration.maxTokens || 4096
ResolveMaxTokens(options, config) ==
    OrNumber(OrNumber(options.maxTokens, config.maxTokens), Some(DefaultMaxTokens))

\* || in place of ??: an explicit temperature of 0 is passed over
ResolveTemperatureWithOr(options, config) ==
    OrNumber(OrNumber(options.temperature, config.temperature), Some(DefaultTemperature))

\* options.temperature ?? this._configuration.temperature ?? 0.7
ResolveTemperature(options, config) ==
    Nullish(Nullish(options.temperature, config.temperature), Some(DefaultTemperature))

\* config.baseUrl || 'https://api.anthropic.com', then `${baseUrl}/v1/messages`
RequestUrl(config) == OrString(config.baseUrl, Some(DefaultBaseUrl))[1] \o "/v1/messages"

\* the direct client's requestBody, url and x-api-key header
ClientRequest(config, messages, model, options, onProgress) ==
    [ model       |-> model,
      max_tokens  |-> ResolveMaxTokens(options, config),
      temperature |-> ResolveTemperature(options, config),
      messages    |-> SelectNonSystem(messages),
      system      |-> FindSystemContent(messages),
      stream      |-> FALSE,
      url         |-> RequestUrl(config),
      apiKey      |-> config.apiKey ]

\* the options the IPC client sends: { ...options, maxTokens: ..., temperature: ... }
IpcOptions(config, options) ==
    [ maxTokens   |-> ResolveMaxTokens(options, config),
      temperature |-> ResolveTemperature(options, config) ]

\* sendStreamingMessage building its body with stream: false
ExecRequestNeverStreams(config, messages, options, stream) ==
    [ model       |-> OrString(config.model, Some(ExecDefaultModel))[1],
      max_tokens  |-> ResolveMaxTokens(options, config),
      temperature |-> ResolveTemperature(options, config),
      messages    |-> SelectNonSystem(messages),
      system      |-> FindSystemContent(messages),
      stream      |-> FALSE,
      url         |-> RequestUrl(config),
      apiKey      |-> config.apiKey ]

\* the executor's requestBody (sendMessage: stream false, sendStreamingMessage: true)
ExecRequest(config, messages, options, stream) ==
    [ model       |-> OrString(config.model, Some(ExecDefaultModel))[1],
      max_tokens  |-> ResolveMaxTokens(options, config),
      temperature |-> ResolveTemperature(options, config),
      messages    |-> SelectNonSystem(messages),
      system      |-> FindSystemContent(messages),
      stream      |-> stream,
      url         |-> RequestUrl(config),
      apiKey      |-> config.apiKey ]

\* the executor's testConnection request: model, max_tokens 10, one 'Hello' turn
ExecTestRequest(config) ==
    [ model       |-> OrString(config.model, Some(ExecDefaultModel))[1],
      max_tokens  |-> Some(TestMaxTokens),
      temperature |-> Undefined,
      messages    |-> << [role |-> "user", content |-> "Hello"] >>,
      system      |-> Undefined,
      stream      |-> FALSE,
      url         |-> RequestUrl(config),
      apiKey      |-> config.apiKey ]

-----------------------------------------------------------------------------
(* Replies of the HTTP API *)

\* a parsed reply body; the Response the client returns has the same shape
FullResponse ==
    [ id      |-> Some("msg_1"),
      type    |-> Some("message"),
      role    |-> Some("assistant"),
      content |-> Some(<<"Hi">>),
      model   |-> Some(TestModel),
      usage   |-> Some([input_tokens |-> Some(3), output_tokens |-> Some(5)]) ]

\* the same reply without usage.input_tokens
NoInputTokens ==
    [FullResponse EXCEPT !.usage = Some([input_tokens |-> Undefined, output_tokens |-> Some(5)])]

WrongType == [FullResponse EXCEPT !.type = Some("error")]

\* a reply whose content array is empty
EmptyContent == [FullResponse EXCEPT !.content = Some(<<>>)]

\* ClaudeApiClient._isValidClaudeResponse
IsValidClaudeResponse(obj) ==
    /\ obj.id # Undefined
    /\ obj.type = Some("message")
    /\ obj.role = Some("assistant")
    /\ obj.content # Undefined
    /\ obj.model # Undefined
    /\ obj.usage # Undefined
    /\ obj.usage[1].input_tokens # Undefined
    /\ obj.usage[1].output_tokens # Undefined

\* the Response _handleStreamingResponse returns: { content: [{text, type}], usage }
StreamedResponse(fullContent, usage) ==
    [ id      |-> Undefined,
      type    |-> Undefined,
      role    |-> Undefined,
      content |-> Some(<<fullContent>>),
      model   |-> Undefined,
      usage   |-> usage ]

NoResponse ==
    [ id |-> Undefined, type |-> Undefined, role |-> Undefined,
      content |-> Undefined, model |-> Undefined, usage |-> Undefined ]

-----------------------------------------------------------------------------
(* The streaming decoder: ClaudeMainService._handleStreamingResponse *)

\* One element of chunk.split('\n'): marker is line.startsWith('data: ');
\* payload is line.slice(6): "[DONE]", "json" (JSON.parse succeeds, giving
\* type, text = delta?.text and usage) or "invalid" (JSON.parse throws).
Piece(marker, payload, type, text, usage) ==
    [marker |-> marker, payload |-> payload, type |-> type, text |-> text, usage |-> usage]

DeltaLine(t) == Piece(TRUE, "json", "content_block_delta", Some(t), Undefined)

UsageLine == Piece(TRUE, "json", "message_delta", Undefined, Some([input_tokens |-> Some(3), output_tokens |-> Some(5)]))

DoneLine == Piece(TRUE, "[DONE]", "", Undefined, Undefined)

\* a data line whose payload is not valid JSON
BadLine == Piece(TRUE, "invalid", "", Undefined, Undefined)

\* a line without the 'data: ' marker, such as 'event: ping' or an empty line
OtherLine == Piece(FALSE, "invalid", "", Undefined, Undefined)

\* What a read that ends inside a line leaves of it: the first part keeps the
\* marker but its payload is cut short, so it is "[DONE]" no more and no
\* complete JSON text; the rest, at the start of the next read, has no marker.
HeadPart(line) == Piece(line.marker, "invalid", "", Undefined, Undefined)

TailPart(line) == OtherLine

\* the decoder's locals: fullContent, usage, and the onProgress calls made
DecoderStart == [fullContent |-> "", usage |-> Undefined, emitted |-> <<>>]

\* the body of `for (const line of lines)`
ProcessLine(st, line) ==
    IF ~line.marker THEN st
    ELSE IF line.payload = "[DONE]" THEN st
    ELSE IF line.payload = "invalid" THEN st
    ELSE IF line.type = "content_block_delta" /\ TruthyString(line.text)
         THEN [st EXCEPT !.fullContent = @ \o line.text[1],
                         !.emitted = Append(@, line.text[1])]
    ELSE IF line.type = "message_delta" /\ line.usage # Undefined
         THEN [st EXCEPT !.usage = line.usage]
    ELSE st

RECURSIVE ProcessChunk(_, _)
\* one read: chunk.split('\n'), then every line in order
ProcessChunk(st, chunk) ==
    IF chunk = <<>> THEN st
    ELSE ProcessChunk(ProcessLine(st, Head(chunk)), Tail(chunk))

-----------------------------------------------------------------------------
(* Calls *)

Deployments == {"direct", "ipcBridge", "ipcChannel"}

CallIds == {1, 2}

HasBridge == deployment = "ipcBridge"

NoOptions == [maxTokens |-> Undefined, temperature |-> Undefined]

\* testConnection's { maxTokens: 10 }
TestOptions == [maxTokens |-> Some(TestMaxTokens), temperature |-> Undefined]

HelloMessages == << [role |-> "user", content |-> "Hello"] >>

Config(apiKey, maxTokens, temperature) ==
    [ apiKey |-> apiKey, baseUrl |-> Undefined, model |-> Some(TestModel),
      maxTokens |-> maxTokens, temperature |-> temperature ]

\* the configurations configure() is called with
MainConfigs == { Config("", Undefined, Undefined), Config("sk-x", Undefined, Undefined) }

Error(kind, status, body) == [kind |-> kind, status |-> status, body |-> body]

NoError == Error("none", 0, "")

NotConfigured == Error("Claude API client is not configured", 0, "")

Cancelled == Error("Request was cancelled", 0, "")

ApiKeyRequired == Error("API key is required", 0, "")

\* `Claude API error: ${status} - ${responseText}`
ApiError(status, body) == Error("Claude API error", status, body)

InvalidJson == Error("Invalid JSON response from Claude API", 0, "")

InvalidFormat == Error("Invalid response format from Claude API", 0, "")

\* the rejection of requestService.request, fetch or reader.read
TransportError == Error("transport", 0, "")

NoOutcome == [kind |-> "none", error |-> NoError, response |-> NoResponse]

Returned(response) == [kind |-> "response", error |-> NoError, response |-> response]

Thrown(error) == [kind |-> "error", error |-> error, response |-> NoResponse]

Resolved(b) == [kind |-> IF b THEN "true" ELSE "false", error |-> NoError, response |-> NoResponse]

IdleCall ==
    [ pc            |-> "idle",
      op            |-> "none",     \* "send" (sendMessage) or "test" (testConnection)
      onProgress    |-> FALSE,
      cancelled     |-> FALSE,      \* token.isCancellationRequested
      preCancelled  |-> FALSE,      \* the token was signalled before the call
      configured    |-> FALSE,      \* isConfigured() when the call was made
      config        |-> Undefined,  \* this._configuration when the call was made
      waitCancelled |-> FALSE,      \* the token was signalled while the call was suspended
      via           |-> "none",     \* "http", "channel" or "invoke"
      command       |-> "none",     \* the executor operation of a cross-process call
      args          |-> Undefined,  \* the arguments of the cross-process call
      request       |-> Undefined,  \* the wire request issued for the call
      httpStatus    |-> 0,          \* the status of the HTTP reply, once received
      httpBody      |-> "",         \* its body text
      reply         |-> NoOutcome,  \* how the executor's operation settled
      reads         |-> <<>>,       \* the reads of the streamed body still to come
      decoder       |-> DecoderStart,
      progress      |-> <<>>,       \* the fragments given to the caller's onProgress
      outcome       |-> NoOutcome ]

HttpReply(status, text, json, reads) ==
    [status |-> status, text |-> text, json |-> json, reads |-> reads]

ErrorText == "{\"error\":\"invalid api key\"}"

ErrorStatuses == {400, 401}

ErrorReplies == { HttpReply(s, ErrorText, Some(NoResponse), <<>>) : s \in ErrorStatuses }

\* replies to a request with stream: false
PlainReplies ==
    { HttpReply(200, "full", Some(FullResponse), <<>>),
      HttpReply(200, "no input_tokens", Some(NoInputTokens), <<>>),
      HttpReply(200, "wrong type", Some(WrongType), <<>>),
      HttpReply(200, "no content blocks", Some(EmptyContent), <<>>),
      HttpReply(200, "<html>", Undefined, <<>>) } \cup ErrorReplies

MainStreams ==
    { << <<DeltaLine("He")>>, <<DeltaLine("llo"), DoneLine>> >>,
      << <<DeltaLine("Hi"), UsageLine>> >> }

\* replies to a request with stream: true
StreamReplies ==
    { HttpReply(200, "", Undefined, r) : r \in MainStreams } \cup ErrorReplies

RepliesTo(request) == IF request.stream THEN StreamReplies ELSE PlainReplies

\* response.ok
Ok(status) == status >= 200 /\ status =< 299

\* the guard of sendMessage taken for isConfigured(): any stored configuration counts
IsConfiguredWhenStored == configuration # Undefined

\* isConfigured(): !!this._configuration?.apiKey
IsConfigured == configuration # Undefined /\ configuration[1].apiKey # ""

\* a call as sendMessage / testConnection finds it on entry
Started(op, onProgress, cancelled) ==
    [IdleCall EXCEPT !.op = op, !.onProgress = onProgress, !.cancelled = cancelled,
                     !.preCancelled = cancelled, !.configured = IsConfigured,
                     !.config = configuration]

\* testConnection of the direct client around sendMessage: true, or false in the catch
Settle(op, result) ==
    IF op = "test" THEN Resolved(result.kind = "response") ELSE result

-----------------------------------------------------------------------------
(* The configuration holder *)

MaxConfigures == 3

\* the listener the provider's constructor registers on
\* onDidChangeConfiguration: it fires the provider's own onDidChange
OnConfigurationChanged(p, configured) ==
    [p EXCEPT !.changes = @ + 1, !.seen = Some(configured)]

\* this._onDidChangeConfiguration.fire() ahead of the assignment: the
\* listener runs while the old configuration is still stored
ConfigureFireFirst(cfg) ==
    /\ provider.present => provider.configures < MaxConfigures
    /\ configuration' = Some(cfg)
    /\ provider' = IF provider.present
                   THEN OnConfigurationChanged(
                            [provider EXCEPT !.configures = @ + 1, !.lastConfig = Some(cfg),
                                             !.fired = @ + 1],
                            IsConfigured)
                   ELSE provider
    /\ UNCHANGED <<deployment, calls, httpCalls, ipcCalls, listeners, wire, dec, chan, migration>>

\* configure(config): the copy is stored, then the event is fired and the
\* registered listener, if a provider was built on the client, runs before
\* configure returns.  configures, lastConfig and fired record the calls of
\* configure, the argument of the latest and the calls of fire() since the
\* provider was constructed.
Configure(cfg) ==
    /\ provider.present => provider.configures < MaxConfigures
    /\ configuration' = Some(cfg)
    /\ provider' = IF provider.present
                   THEN OnConfigurationChanged(
                            [provider EXCEPT !.configures = @ + 1, !.lastConfig = Some(cfg),
                                             !.fired = @ + 1],
                            IsConfigured')
                   ELSE provider
    /\ UNCHANGED <<deployment, calls, httpCalls, ipcCalls, listeners, wire, dec, chan, migration>>

-----------------------------------------------------------------------------
(* The direct client *)

\* sendMessage up to its first suspension, the await of requestService.request
DirectStart(c, op, messages, model, options, onProgress, cancelled) ==
    IF configuration = Undefined
    THEN /\ calls' = [calls EXCEPT ![c] =
                [Started(op, onProgress, cancelled) EXCEPT
                    !.pc = "done", !.outcome = Settle(op, Thrown(NotConfigured))]]
         /\ UNCHANGED httpCalls
    ELSE /\ calls' = [calls EXCEPT ![c] =
                [Started(op, onProgress, cancelled) EXCEPT
                    !.pc = "http", !.via = "http",
                    !.request = Some(ClientRequest(configuration[1], messages, model,
                                                   options, onProgress))]]
         /\ httpCalls' = httpCalls + 1

DirectSendMessage(c) ==
    /\ deployment = "direct"
    /\ calls[c].pc = "idle"
    /\ \E onProgress \in BOOLEAN, cancelled \in BOOLEAN :
            DirectStart(c, "send", HelloMessages, TestModel, NoOptions, onProgress, cancelled)
    /\ UNCHANGED <<deployment, configuration, ipcCalls, listeners, wire, dec, chan, provider, migration>>

DirectTestConnection(c) ==
    /\ deployment = "direct"
    /\ calls[c].pc = "idle"
    /\ \E cancelled \in BOOLEAN :
            DirectStart(c, "test", HelloMessages, TestModel, TestOptions, FALSE, cancelled)
    /\ UNCHANGED <<deployment, configuration, ipcCalls, listeners, wire, dec, chan, provider, migration>>

\* the status test written > 400: a reply of status 400 is parsed as a Response
DirectHandleReplyAbove400(cancelled, r) ==
    IF cancelled THEN Thrown(Cancelled)
    ELSE IF r.status > 400 THEN Thrown(ApiError(r.status, r.text))
    ELSE IF r.json = Undefined THEN Thrown(InvalidJson)
    ELSE IF ~IsValidClaudeResponse(r.json[1]) THEN Thrown(InvalidFormat)
    ELSE Returned(r.json[1])

\* _handleNonStreamingRequest after the await: cancellation check, status check,
\* JSON.parse, _isValidClaudeResponse
DirectHandleReply(cancelled, r) ==
    IF cancelled THEN Thrown(Cancelled)
    ELSE IF r.status >= 400 THEN Thrown(ApiError(r.status, r.text))
    ELSE IF r.json = Undefined THEN Thrown(InvalidJson)
    ELSE IF ~IsValidClaudeResponse(r.json[1]) THEN Thrown(InvalidFormat)
    ELSE Returned(r.json[1])

\* requestService.request resolves
DirectHttpResolve(c) ==
    /\ calls[c].pc = "http"
    /\ \E r \in RepliesTo(calls[c].request[1]) :
            calls' = [calls EXCEPT ![c] =
                [@ EXCEPT !.pc = "done", !.httpStatus = r.status, !.httpBody = r.text,
                          !.outcome = Settle(calls[c].op,
                                             DirectHandleReply(calls[c].cancelled, r))]]
    /\ UNCHANGED <<deployment, configuration, httpCalls, ipcCalls, listeners, wire, dec, chan, provider, migration>>

\* requestService.request rejects: the rejection leaves sendMessage as it is,
\* the promise having been returned from the try block without an await
DirectHttpReject(c) ==
    /\ calls[c].pc = "http"
    /\ calls' = [calls EXCEPT ![c] =
            [@ EXCEPT !.pc = "done",
                      !.outcome = Settle(calls[c].op, Thrown(TransportError))]]
    /\ UNCHANGED <<deployment, configuration, httpCalls, ipcCalls, listeners, wire, dec, chan, provider, migration>>

-----------------------------------------------------------------------------
(* The IPC client *)

\* how sendMessage crosses to the main process: ipcRenderer.invoke when a
\* progress callback is given and the bridge exists, else the 'claude' channel
IpcVia(onProgress) == IF onProgress /\ HasBridge THEN "invoke" ELSE "channel"

\* 'claude:sendStreamingMessage' is handled by sendStreamingMessage, the
\* channel's 'sendMessage' by sendMessage
IpcCommand(via) == IF via = "invoke" THEN "sendStreamingMessage" ELSE "sendMessage"

\* [this._configuration, messages, { ...options, maxTokens, temperature }]
IpcArgs(config, messages, options) ==
    [config |-> config, messages |-> messages, options |-> IpcOptions(config, options)]

\* sendMessage up to its first suspension: channel.call('sendMessage', ...) or,
\* in _sendStreamingMessage, ipcRenderer.invoke('claude:sendStreamingMessage', ...)
IpcSendStart(c, messages, options, onProgress, cancelled) ==
    IF configuration = Undefined
    THEN /\ calls' = [calls EXCEPT ![c] =
                [Started("send", onProgress, cancelled) EXCEPT
                    !.pc = "done", !.outcome = Thrown(NotConfigured)]]
         /\ UNCHANGED <<ipcCalls, listeners>>
    ELSE /\ calls' = [calls EXCEPT ![c] =
                [Started("send", onProgress, cancelled) EXCEPT
                    !.pc = "sent",
                    !.via = IpcVia(onProgress),
                    !.command = IpcCommand(IpcVia(onProgress)),
                    !.args = Some(IpcArgs(configuration[1], messages, options))]]
         /\ listeners' = IF onProgress /\ HasBridge THEN listeners \cup {c}
                         ELSE listeners
         /\ ipcCalls' = ipcCalls + 1

IpcSendMessage(c) ==
    /\ deployment # "direct"
    /\ calls[c].pc = "idle"
    /\ \E onProgress \in BOOLEAN, cancelled \in BOOLEAN :
            IpcSendStart(c, HelloMessages, NoOptions, onProgress, cancelled)
    /\ UNCHANGED <<deployment, configuration, httpCalls, wire, dec, chan, provider, migration>>

\* testConnection up to its first suspension: channel.call('testConnection', [config])
IpcTestStart(c, cancelled) ==
    IF configuration = Undefined
    THEN /\ calls' = [calls EXCEPT ![c] =
                [Started("test", FALSE, cancelled) EXCEPT
                    !.pc = "done", !.outcome = Resolved(FALSE)]]
         /\ UNCHANGED ipcCalls
    ELSE /\ calls' = [calls EXCEPT ![c] =
                [Started("test", FALSE, cancelled) EXCEPT
                    !.pc = "sent", !.via = "channel", !.command = "testConnection",
                    !.args = Some([ config   |-> configuration[1],
                                    messages |-> <<>>,
                                    options  |-> NoOptions ])]]
         /\ ipcCalls' = ipcCalls + 1

IpcTestConnection(c) ==
    /\ deployment # "direct"
    /\ calls[c].pc = "idle"
    /\ \E cancelled \in BOOLEAN : IpcTestStart(c, cancelled)
    /\ UNCHANGED <<deployment, configuration, httpCalls, listeners, wire, dec, chan, provider, migration>>

\* the catch of sendMessage reporting Cancelled without reading the token
IpcSettleAlwaysCancelled(call) ==
    IF call.op = "test" THEN Resolved(call.reply.kind = "true")
    ELSE IF call.reply.kind = "error" THEN Thrown(Cancelled)
    ELSE call.reply

\* the await of the cross-process call settles: the finally of
\* _sendStreamingMessage, the catch of sendMessage, the catch of testConnection
IpcSettle(call) ==
    IF call.op = "test" THEN Resolved(call.reply.kind = "true")
    ELSE IF call.reply.kind = "error" /\ call.cancelled THEN Thrown(Cancelled)
    ELSE call.reply

\* removeListener after the await instead of in the finally: a call that
\* fails keeps its listener
IpcReplyRemoveOnSuccess(c) ==
    /\ calls[c].pc = "reply"
    /\ calls' = [calls EXCEPT ![c] = [@ EXCEPT !.pc = "done", !.outcome = IpcSettle(calls[c])]]
    /\ listeners' = IF calls[c].reply.kind = "error" THEN listeners ELSE listeners \ {c}
    /\ UNCHANGED <<deployment, configuration, httpCalls, ipcCalls, wire, dec, chan, provider, migration>>

\* the reply of the cross-process call reaches the client: the call settles
\* and the finally of _sendStreamingMessage removes its progressListener
IpcReply(c) ==
    /\ calls[c].pc = "reply"
    /\ calls' = [calls EXCEPT ![c] = [@ EXCEPT !.pc = "done", !.outcome = IpcSettle(calls[c])]]
    /\ listeners' = listeners \ {c}
    /\ UNCHANGED <<deployment, configuration, httpCalls, ipcCalls, wire, dec, chan, provider, migration>>

\* the caller signals the token while the call is suspended
Cancel(c) ==
    /\ calls[c].pc \notin {"idle", "done"}
    /\ ~calls[c].cancelled
    /\ calls' = [calls EXCEPT ![c] = [@ EXCEPT !.cancelled = TRUE, !.waitCancelled = TRUE]]
    /\ UNCHANGED <<deployment, configuration, httpCalls, ipcCalls, listeners, wire, dec, chan, provider, migration>>

-----
(* The 'claude' channel: ClaudeChannel.call *)

MaxArity == 4

\* the three ClaudeChannel classes: the one that asks sendStreamingMessage for
\* three arguments, the one that falls back to sendMessage, and the one that
\* dispatches without looking at its argument
ChannelVariants == {"validatingStreaming", "validatingFallback", "unvalidated"}

Commands == {"testConnection", "sendMessage", "sendStreamingMessage", "estimateTokens"}

ArgNames == <<"config", "messages", "options", "fourth", "fifth", "sixth">>

\* the `arg` of call(_, command, arg): left out, an object that is no array,
\* or an array of up to MaxArity elements
ArgValues ==
    { [kind |-> "absent", items |-> <<>>], [kind |-> "object", items |-> <<>>] }
        \cup { [kind |-> "array", items |-> SubSeq(ArgNames, 1, n)] : n \in 0..MaxArity }

\* arg[i - 1]: undefined past the end of an array and on an object
ArgAt(arg, i) ==
    IF arg.kind = "array" /\ i =< Len(arg.items) THEN arg.items[i] ELSE "undefined"

Failed(error) == [kind |-> "error", error |-> error, method |-> "none", passed |-> <<>>]

Invoked(method, passed) == [kind |-> "invoked", error |-> "none", method |-> method, passed |-> passed]

\* the claudeService method a command reaches, with the arguments handed to
\* it; reading arg[0] of an absent arg raises a TypeError
Dispatch(method, arg, passed) ==
    IF arg.kind = "absent" THEN Failed("TypeError") ELSE Invoked(method, passed)

\* ClaudeChannel.call
ChannelCall(variant, command, arg) ==
    IF variant # "unvalidated" /\ arg.kind # "array"
    THEN Failed("Invalid arguments for command")
    ELSE IF command = "testConnection"
    THEN IF variant # "unvalidated" /\ Len(arg.items) < 1
         THEN Failed("testConnection requires config argument")
         ELSE Dispatch("testConnection", arg, <<ArgAt(arg, 1)>>)
    ELSE IF command = "sendMessage"
    THEN IF variant # "unvalidated" /\ Len(arg.items) < 2
         THEN Failed("sendMessage requires config and messages arguments")
         ELSE Dispatch("sendMessage", arg, <<ArgAt(arg, 1), ArgAt(arg, 2), ArgAt(arg, 3)>>)
    ELSE IF command = "sendStreamingMessage"
    THEN IF variant = "validatingStreaming"
         THEN IF Len(arg.items) < 3
              THEN Failed("sendStreamingMessage requires config, messages, and onProgress arguments")
              ELSE Dispatch("sendStreamingMessage", arg,
                            <<ArgAt(arg, 1), ArgAt(arg, 2), ArgAt(arg, 3), ArgAt(arg, 4)>>)
         ELSE IF variant = "validatingFallback"
         THEN IF Len(arg.items) < 2
              THEN Failed("sendStreamingMessage requires config and messages arguments")
              ELSE Dispatch("sendMessage", arg, <<ArgAt(arg, 1), ArgAt(arg, 2), ArgAt(arg, 3)>>)
         ELSE Dispatch("sendStreamingMessage", arg,
                       <<ArgAt(arg, 1), ArgAt(arg, 2), "() => { }", ArgAt(arg, 3)>>)
    ELSE Failed("Call not found")

-----------------------------------------------------------------------------
(* The main-process executor, ClaudeMainService, behind the bridge *)

JsonSyntaxError == Error("SyntaxError", 0, "")

\* the executor building its request from the configuration stored now, not
\* from the one that came with the call
ExecBuildFromStored(command, a) ==
    LET config == IF configuration = Undefined THEN a.config ELSE configuration[1]
    IN IF command = "testConnection" THEN ExecTestRequest(config)
       ELSE ExecRequest(config, a.messages, a.options, command = "sendStreamingMessage")

\* the request the executor builds for a command and its arguments
ExecBuild(command, a) ==
    IF command = "testConnection" THEN ExecTestRequest(a.config)
    ELSE ExecRequest(a.config, a.messages, a.options, command = "sendStreamingMessage")

\* the argument array of channel.call: [config] for testConnection,
\* [config, messages, options] for sendMessage
ChannelArgs(command) ==
    [ kind  |-> "array",
      items |-> IF command = "testConnection" THEN <<"config">>
                ELSE <<"config", "messages", "options">> ]

\* What stands between the client's cross-process call and the executor:
\* ClaudeChannel.call for channel.call, and for ipcRenderer.invoke the
\* ipcMain.handle handler, which awaits the executor and rethrows what it throws
BridgeCall(variant, via, command) ==
    IF via = "invoke" THEN Invoked(command, <<"config", "messages", "onProgress", "options">>)
    ELSE ChannelCall(variant, command, ChannelArgs(command))

\* the bridge, then the executor's operation up to its first suspension, the
\* await of fetch
ExecReceive(c) ==
    /\ calls[c].pc = "sent"
    /\ \E variant \in ChannelVariants :
        LET a == calls[c].args[1]
            b == BridgeCall(variant, calls[c].via, calls[c].command)
        IN IF b.kind = "error"
           THEN /\ calls' = [calls EXCEPT ![c] =
                        [@ EXCEPT !.pc = "reply", !.reply = Thrown(Error(b.error, 0, ""))]]
                /\ UNCHANGED httpCalls
           ELSE IF a.config.apiKey = ""
           THEN /\ calls' = [calls EXCEPT ![c] =
                        [@ EXCEPT !.pc = "reply", !.command = b.method,
                                  !.reply = Thrown(ApiKeyRequired)]]
                /\ UNCHANGED httpCalls
           ELSE /\ calls' = [calls EXCEPT ![c] =
                        [@ EXCEPT !.pc = "execHttp", !.command = b.method,
                                  !.request = Some(ExecBuild(b.method, a))]]
                /\ httpCalls' = httpCalls + 1
    /\ UNCHANGED <<deployment, configuration, ipcCalls, listeners, wire, dec, chan, provider, migration>>

\* the executor after fetch resolved: response.ok, response.json()
ExecHandleReply(command, r) ==
    IF command = "testConnection" THEN Resolved(Ok(r.status))
    ELSE IF ~Ok(r.status) THEN Thrown(ApiError(r.status, r.text))
    ELSE IF r.json = Undefined THEN Thrown(JsonSyntaxError)
    ELSE Returned(r.json[1])

ExecHttpResolve(c) ==
    /\ calls[c].pc = "execHttp"
    /\ \E r \in RepliesTo(calls[c].request[1]) :
        calls' = [calls EXCEPT ![c] =
            IF calls[c].command = "sendStreamingMessage" /\ Ok(r.status)
            THEN [@ EXCEPT !.pc = "execRead", !.httpStatus = r.status, !.httpBody = r.text,
                           !.reads = r.reads, !.decoder = DecoderStart]
            ELSE [@ EXCEPT !.pc = "reply", !.httpStatus = r.status, !.httpBody = r.text,
                           !.reply = ExecHandleReply(calls[c].command, r)]]
    /\ UNCHANGED <<deployment, configuration, httpCalls, ipcCalls, listeners, wire, dec, chan, provider, migration>>

\* fetch rejects: testConnection answers false, the others rethrow
ExecHttpReject(c) ==
    /\ calls[c].pc = "execHttp"
    /\ calls' = [calls EXCEPT ![c] =
            [@ EXCEPT !.pc = "reply",
                      !.reply = IF calls[c].command = "testConnection"
                                THEN Resolved(FALSE) ELSE Thrown(TransportError)]]
    /\ UNCHANGED <<deployment, configuration, httpCalls, ipcCalls, listeners, wire, dec, chan, provider, migration>>

\* One reader.read() of _handleStreamingResponse.  Each fragment goes to the
\* executor's onProgress, which sends 'claude:streamingProgress' to the
\* renderer, where every registered progressListener passes it to its
\* caller's onProgress.  done: true ends the loop and the Response is built.
ExecRead(c) ==
    /\ calls[c].pc = "execRead"
    /\ IF calls[c].reads = <<>>
       THEN calls' = [calls EXCEPT ![c] =
                [@ EXCEPT !.pc = "reply",
                          !.reply = Returned(StreamedResponse(calls[c].decoder.fullContent,
                                                              calls[c].decoder.usage))]]
       ELSE LET st  == ProcessChunk(calls[c].decoder, Head(calls[c].reads))
                new == SubSeq(st.emitted, Len(calls[c].decoder.emitted) + 1, Len(st.emitted))
                got(k) == IF k \in listeners THEN calls[k].progress \o new
                          ELSE calls[k].progress
            IN calls' = [k \in CallIds |->
                    IF k = c
                    THEN [calls[k] EXCEPT !.decoder = st, !.reads = Tail(calls[c].reads),
                                          !.progress = got(k)]
                    ELSE [calls[k] EXCEPT !.progress = got(k)]]
    /\ UNCHANGED <<deployment, configuration, httpCalls, ipcCalls, listeners, wire, dec, chan, provider, migration>>

\* reader.read() rejects: the finally releases the reader and the error is rethrown
ExecReadFail(c) ==
    /\ calls[c].pc = "execRead"
    /\ calls' = [calls EXCEPT ![c] = [@ EXCEPT !.pc = "reply", !.reply = Thrown(TransportError)]]
    /\ UNCHANGED <<deployment, configuration, httpCalls, ipcCalls, listeners, wire, dec, chan, provider, migration>>

-----------------------------------------------------------------------------
(* The calls, end to end *)

WireIdle == [pc |-> "none"]

DecIdle == [pc |-> "none"]

ChanIdle == [pc |-> "none"]

\* performAutomaticMigration has not been called
MigrationIdle ==
    [ pc       |-> "idle",
      exists   |-> FALSE,       \* installation.exists
      ran      |-> <<>>,        \* the steps entered, in order
      results  |-> <<>>,        \* how each of them ended
      notified |-> FALSE,       \* notificationService.notify has been called
      restart  |-> FALSE,       \* the reload of the window is scheduled
      outcome  |-> NoOutcome ]

\* no provider has been constructed: nothing listens to onDidChangeConfiguration
NoProvider == [present |-> FALSE]

\* what a provider operation gave its caller: nothing yet, a list, or an error
NotReturned == [kind |-> "none", models |-> <<>>]

ReturnedList(models) == [kind |-> "returned", models |-> models]

PrepareIdle == [pc |-> "idle", silent |-> FALSE, configured |-> FALSE, result |-> NotReturned]

ChatIdle == [pc |-> "idle", modelId |-> <<>>, actualModelId |-> "", options |-> NoOptions]

\* the { stream, result } of sendChatRequest: the text it was made with, the
\* generators its [Symbol.asyncIterator]() has created, each with its state,
\* and the values they have yielded so far
NoHandle == [created |-> FALSE, text |-> "", generators |-> <<>>, yielded |-> <<>>]

\* a provider just constructed on the client: its listener is registered,
\* no event has been seen and no operation has been started; probe is what
\* the latest isConfigured() asked by a user of the client returned
ProviderStart ==
    [ present    |-> TRUE,
      configures |-> 0,
      lastConfig |-> Undefined,
      fired      |-> 0,
      changes    |-> 0,
      seen       |-> Undefined,
      probe      |-> Undefined,
      prepare    |-> PrepareIdle,
      chat       |-> ChatIdle,
      handle     |-> NoHandle ]

Init ==
    /\ deployment \in Deployments
    /\ configuration = Undefined
    /\ calls = [c \in CallIds |-> IdleCall]
    /\ httpCalls = 0
    /\ ipcCalls = 0
    /\ listeners = {}
    /\ wire = WireIdle
    /\ dec = DecIdle
    /\ chan = ChanIdle
    /\ provider = NoProvider
    /\ migration = MigrationIdle

Next ==
    \/ \E cfg \in MainConfigs : Configure(cfg)
    \/ \E c \in CallIds : DirectSendMessage(c)
    \/ \E c \in CallIds : DirectTestConnection(c)
    \/ \E c \in CallIds : DirectHttpResolve(c)
    \/ \E c \in CallIds : DirectHttpReject(c)
    \/ \E c \in CallIds : IpcSendMessage(c)
    \/ \E c \in CallIds : IpcTestConnection(c)
    \/ \E c \in CallIds : ExecReceive(c)
    \/ \E c \in CallIds : ExecHttpResolve(c)
    \/ \E c \in CallIds : ExecHttpReject(c)
    \/ \E c \in CallIds : ExecRead(c)
    \/ \E c \in CallIds : ExecReadFail(c)
    \/ \E c \in CallIds : IpcReply(c)
    \/ \E c \in CallIds : Cancel(c)

Spec == Init /\ [][Next]_vars

-----------------------------------------------------------------------------
(* Request construction, over the inputs of sendMessage *)

MaxMessages == 3

Roles == {"system", "user", "assistant"}

ContentNames == <<"a", "b", "c", "d", "e", "f">>

\* the message lists of up to MaxMessages messages, each with a content of its own
MessageLists ==
    UNION { { [i \in 1..n |-> [role |-> r[i], content |-> ContentNames[i]]] :
                r \in [1..n -> Roles] } : n \in 0..MaxMessages }

OptionalTokens == {Undefined, Some(10), Some(20)}

\* in tenths: absent, 0 and 0.5
OptionalTemperatures == {Undefined, Some(0), Some(5)}

WireConfigs == { Config("sk-x", m, t) : m \in OptionalTokens, t \in OptionalTemperatures }

WireOptions == [maxTokens : OptionalTokens, temperature : OptionalTemperatures]

\* the model argument of sendMessage: two keys of CLAUDE_MODELS
WireModels == {TestModel, "claude-3-5-haiku-20241022"}

\* the wire request of sendMessage(messages, model, options, onProgress) under
\* the stored configuration: built by the direct client, or by the executor
\* from what the IPC client passes on
WireRequest(config, messages, model, options, onProgress) ==
    IF deployment = "direct"
    THEN ClientRequest(config, messages, model, options, onProgress)
    ELSE ExecBuild(IpcCommand(IpcVia(onProgress)), IpcArgs(config, messages, options))

InitWire ==
    /\ deployment \in Deployments
    /\ configuration \in { Some(cfg) : cfg \in WireConfigs }
    /\ wire \in { [ pc |-> "input", messages |-> m, model |-> id, options |-> o,
                    onProgress |-> p, request |-> Undefined ] :
                  m \in MessageLists, id \in WireModels, o \in WireOptions, p \in BOOLEAN }
    /\ calls = [c \in CallIds |-> IdleCall]
    /\ httpCalls = 0
    /\ ipcCalls = 0
    /\ listeners = {}
    /\ dec = DecIdle
    /\ chan = ChanIdle
    /\ provider = NoProvider
    /\ migration = MigrationIdle

\* sendMessage builds and issues the request
WireSend ==
    /\ wire.pc = "input"
    /\ wire' = [wire EXCEPT !.pc = "built",
                            !.request = Some(WireRequest(configuration[1], wire.messages,
                                                 wire.model, wire.options, wire.onProgress))]
    /\ UNCHANGED <<deployment, configuration, calls, httpCalls, ipcCalls, listeners, dec, chan, provider, migration>>

NextWire == WireSend

SpecWire == InitWire /\ [][NextWire]_vars

-----------------------------------------------------------------------------
(* The streaming decoder, over the bodies of a streamed reply *)

MaxLines == 3

\* the text fragments of the content_block_delta lines
Fragments == {"He", "llo", ""}

Lines == { DeltaLine(t) : t \in Fragments } \cup {UsageLine, DoneLine, BadLine, OtherLine}

Bodies == UNION { [1..n -> Lines] : n \in 1..MaxLines }

\* where the transport ends a read: not after this line, after it, or inside it
Cuts == {"none", "after", "inside"}

RECURSIVE SplitReads(_, _, _, _)
\* the reads a body arrives in, each read the lines (and parts of lines) in it
SplitReads(lines, cuts, i, read) ==
    IF i > Len(lines) THEN (IF read = <<>> THEN <<>> ELSE <<read>>)
    ELSE IF cuts[i] = "none"
         THEN SplitReads(lines, cuts, i + 1, Append(read, lines[i]))
    ELSE IF cuts[i] = "after"
         THEN <<Append(read, lines[i])>> \o SplitReads(lines, cuts, i + 1, <<>>)
    ELSE <<Append(read, HeadPart(lines[i]))>>
            \o SplitReads(lines, cuts, i + 1, <<TailPart(lines[i])>>)

\* the rejection of _handleStreamingResponse when response.body has no reader
NoReader == Error("No response body reader available", 0, "")

\* decoder.decode(value) given a value that is no buffer
DecodeTypeError == Error("TypeError", 0, "")

\* one run of the decoder: the body, the reads it arrives in, and the reader
DecoderRun(lines, cuts, hasBody) ==
    [ pc       |-> "start",
      hasBody  |-> hasBody,                   \* response.body is there
      lines    |-> lines,                     \* the body, line by line
      whole    |-> \A i \in 1..Len(lines) : cuts[i] # "inside",
      allReads |-> SplitReads(lines, cuts, 1, <<>>),
      reads    |-> SplitReads(lines, cuts, 1, <<>>),   \* the reads still to come
      st       |-> DecoderStart,
      held     |-> FALSE,                     \* the reader's lock is held
      releases |-> 0,                         \* calls of reader.releaseLock()
      result   |-> NoOutcome ]

InitDecode ==
    /\ \/ \E lines \in Bodies : \E cuts \in [1..Len(lines) -> Cuts] :
            dec = DecoderRun(lines, cuts, TRUE)
       \/ dec = DecoderRun(<<>>, <<>>, FALSE)
    /\ deployment = "ipcBridge"
    /\ configuration = Undefined
    /\ calls = [c \in CallIds |-> IdleCall]
    /\ httpCalls = 0
    /\ ipcCalls = 0
    /\ listeners = {}
    /\ wire = WireIdle
    /\ chan = ChanIdle
    /\ provider = NoProvider
    /\ migration = MigrationIdle

\* response.body?.getReader(), and the throw when there is no reader
DecAcquire ==
    /\ dec.pc = "start"
    /\ dec' = IF dec.hasBody
              THEN [dec EXCEPT !.pc = "reading", !.held = TRUE]
              ELSE [dec EXCEPT !.pc = "failed", !.result = Thrown(NoReader)]
    /\ UNCHANGED <<deployment, configuration, calls, httpCalls, ipcCalls, listeners, wire, chan, provider, migration>>

\* a data line whose payload JSON.parse refuses
Malformed(line) == line.marker /\ line.payload = "invalid"

\* JSON.parse without the try around it: a malformed data line in a chunk
\* ends the call with the SyntaxError
DecReadThrowsOnMalformed ==
    /\ dec.pc = "reading"
    /\ IF dec.reads = <<>>
       THEN dec' = [dec EXCEPT !.pc = "done", !.held = FALSE, !.releases = @ + 1,
                        !.result = Returned(StreamedResponse(dec.st.fullContent, dec.st.usage))]
       ELSE IF \E i \in 1..Len(Head(dec.reads)) : Malformed(Head(dec.reads)[i])
       THEN dec' = [dec EXCEPT !.pc = "failed", !.held = FALSE, !.releases = @ + 1,
                               !.reads = Tail(dec.reads),
                               !.result = Thrown(JsonSyntaxError)]
       ELSE dec' = [dec EXCEPT !.st = ProcessChunk(dec.st, Head(dec.reads)),
                               !.reads = Tail(dec.reads)]
    /\ UNCHANGED <<deployment, configuration, calls, httpCalls, ipcCalls, listeners, wire, chan, provider, migration>>

\* one reader.read(): a chunk is decoded line by line; done: true leaves the
\* loop, the finally releases the reader and the Response is returned
DecRead ==
    /\ dec.pc = "reading"
    /\ IF dec.reads = <<>>
       THEN dec' = [dec EXCEPT !.pc = "done", !.held = FALSE, !.releases = @ + 1,
                        !.result = Returned(StreamedResponse(dec.st.fullContent, dec.st.usage))]
       ELSE dec' = [dec EXCEPT !.st = ProcessChunk(dec.st, Head(dec.reads)),
                               !.reads = Tail(dec.reads)]
    /\ UNCHANGED <<deployment, configuration, calls, httpCalls, ipcCalls, listeners, wire, chan, provider, migration>>

\* releaseLock() at the end of the try block instead of in a finally: a
\* rejected read leaves the function with the reader held
DecReadFailKeepsLock ==
    /\ dec.pc = "reading"
    /\ dec' = [dec EXCEPT !.pc = "failed", !.result = Thrown(TransportError)]
    /\ UNCHANGED <<deployment, configuration, calls, httpCalls, ipcCalls, listeners, wire, chan, provider, migration>>

\* reader.read() rejects: the finally releases the reader, the error is rethrown
DecReadFail ==
    /\ dec.pc = "reading"
    /\ dec' = [dec EXCEPT !.pc = "failed", !.held = FALSE, !.releases = @ + 1,
                          !.result = Thrown(TransportError)]
    /\ UNCHANGED <<deployment, configuration, calls, httpCalls, ipcCalls, listeners, wire, chan, provider, migration>>

\* a read gives a value that decoder.decode() refuses: the error is raised
\* outside the try around JSON.parse, the finally releases the reader and the
\* error is rethrown
DecProcessFail ==
    /\ dec.pc = "reading"
    /\ dec.reads # <<>>
    /\ dec' = [dec EXCEPT !.pc = "failed", !.held = FALSE, !.releases = @ + 1,
                          !.reads = Tail(dec.reads),
                          !.result = Thrown(DecodeTypeError)]
    /\ UNCHANGED <<deployment, configuration, calls, httpCalls, ipcCalls, listeners, wire, chan, provider, migration>>

NextDecode == DecAcquire \/ DecRead \/ DecReadFail \/ DecProcessFail

SpecDecode == InitDecode /\ [][NextDecode]_vars

-----------------------------------------------------------------------------------------------------------------------------------------------------
(* ClaudeChannel.call, over commands and argument lists *)

InitChannel ==
    /\ chan \in { [pc |-> "input", variant |-> v, command |-> cmd, arg |-> a,
                   result |-> Failed("none")] :
                  v \in ChannelVariants, cmd \in Commands, a \in ArgValues }
    /\ deployment = "ipcChannel"
    /\ configuration = Undefined
    /\ calls = [c \in CallIds |-> IdleCall]
    /\ httpCalls = 0
    /\ ipcCalls = 0
    /\ listeners = {}
    /\ wire = WireIdle
    /\ dec = DecIdle
    /\ provider = NoProvider
    /\ migration = MigrationIdle

\* the channel server hands a call to ClaudeChannel.call
ChannelDispatch ==
    /\ chan.pc = "input"
    /\ chan' = [chan EXCEPT !.pc = "done",
                            !.result = ChannelCall(chan.variant, chan.command, chan.arg)]
    /\ UNCHANGED <<deployment, configuration, calls, httpCalls, ipcCalls, listeners, wire, dec, provider, migration>>

NextChannel == ChannelDispatch

SpecChannel == InitChannel /\ [][NextChannel]_vars

-----------------------------------------------------------------------------
(* configure() against one call, over configurations that differ in every field *)

RichConfigs ==
    MainConfigs \cup
        { [ apiKey |-> "sk-y", baseUrl |-> Some("https://proxy.local"),
            model |-> Some(TestModel), maxTokens |-> Some(20), temperature |-> Some(5) ] }

\* a user of the client asks isConfigured(): the answer is computed and logged
CallIsConfigured ==
    /\ provider' = [provider EXCEPT !.probe = Some(IsConfigured)]
    /\ UNCHANGED <<deployment, configuration, calls, httpCalls, ipcCalls, listeners, wire, dec, chan, migration>>

InitConfig ==
    /\ deployment \in Deployments
    /\ configuration = Undefined
    /\ calls = [c \in CallIds |-> IdleCall]
    /\ httpCalls = 0
    /\ ipcCalls = 0
    /\ listeners = {}
    /\ wire = WireIdle
    /\ dec = DecIdle
    /\ chan = ChanIdle
    /\ provider = ProviderStart
    /\ migration = MigrationIdle

NextConfig ==
    \/ \E cfg \in RichConfigs : Configure(cfg)
    \/ CallIsConfigured
    \/ DirectSendMessage(1)
    \/ DirectTestConnection(1)
    \/ DirectHttpResolve(1)
    \/ DirectHttpReject(1)
    \/ IpcSendMessage(1)
    \/ IpcTestConnection(1)
    \/ ExecReceive(1)
    \/ ExecHttpResolve(1)
    \/ ExecHttpReject(1)
    \/ ExecRead(1)
    \/ ExecReadFail(1)
    \/ IpcReply(1)
    \/ Cancel(1)

SpecConfig == InitConfig /\ [][NextConfig]_vars

-----------------------------------------------------------------------------
(* The provider: ClaudeLanguageModelProvider on top of the client.  Its      *)
(* testConnection runs as call 1 and its sendMessage as call 2.              *)
(* SpecProvider runs prepareLanguageModelChat and SpecChat runs              *)
(* sendChatRequest and the response stream, each against configure() and     *)
(* the cancellation of the token at any time.                                *)

MaxIterations == 2

\* a string is kept as the sequence of its parts where String.replace works on it
Join(parts) == Concat(parts)

\* the keys of CLAUDE_MODELS
ClaudeModels ==
    << <<"claude-", "sonnet-4-20250514">>,
       <<"claude-", "3-7-sonnet-20250219">>,
       <<"claude-", "3-5-haiku-20241022">> >>

\* identifier: `claude-${id}`
Identifier(id) == <<"claude-">> \o id

\* Object.entries(CLAUDE_MODELS).map(...), by identifier
Catalog == [i \in 1..Len(ClaudeModels) |-> Join(Identifier(ClaudeModels[i]))]

\* modelId.replace(/claude-/g, ''): every occurrence is taken out
ReplaceEvery(parts, part) == SelectSeq(parts, LAMBDA x : x # part)

RECURSIVE ReplaceFirst(_, _)
\* modelId.replace('claude-', ''): the first occurrence is taken out
ReplaceFirst(parts, part) ==
    IF parts = <<>> THEN <<>>
    ELSE IF Head(parts) = part THEN Tail(parts)
    ELSE <<Head(parts)>> \o ReplaceFirst(Tail(parts), part)

\* _convertRole
ConvertRole(role) ==
    IF role = "System" THEN "system"
    ELSE IF role = "User" THEN "user"
    ELSE IF role = "Assistant" THEN "assistant"
    ELSE "user"

\* _convertMessagesToClaude: the role is converted, the content parts are kept
ConvertMessagesToClaude(messages) ==
    [i \in 1..Len(messages) |->
        [role |-> ConvertRole(messages[i].role), content |-> messages[i].content]]

ChatMessageLists ==
    { << [role |-> "User", content |-> "Hello"] >>,
      << [role |-> "System", content |-> "Be brief"], [role |-> "Tool", content |-> "Hello"] >> }

\* the options of sendChatRequest
ChatOptions == { NoOptions, [maxTokens |-> Some(20), temperature |-> Some(0)] }

\* { maxTokens: options.maxTokens || 4096, temperature: options.temperature || 0.7 }
ProviderOptions(options) ==
    [ maxTokens   |-> OrNumber(options.maxTokens, Some(DefaultMaxTokens)),
      temperature |-> OrNumber(options.temperature, Some(DefaultTemperature)) ]

\* claudeResponse.content?.[0]?.text || ''
ResponseText(response) ==
    IF response.content = Undefined \/ response.content[1] = <<>> THEN ""
    ELSE response.content[1][1]

\* claudeApiClient.testConnection(token), as call 1
ClientTestConnection(cancelled) ==
    IF deployment = "direct"
    THEN /\ DirectStart(1, "test", HelloMessages, TestModel, TestOptions, FALSE, cancelled)
         /\ UNCHANGED ipcCalls
    ELSE /\ IpcTestStart(1, cancelled)
         /\ UNCHANGED httpCalls

\* claudeApiClient.sendMessage(messages, model, options, undefined, token), as call 2
ClientSendMessage(messages, model, options, cancelled) ==
    IF deployment = "direct"
    THEN /\ DirectStart(2, "send", messages, model, options, FALSE, cancelled)
         /\ UNCHANGED <<ipcCalls, listeners>>
    ELSE /\ IpcSendStart(2, messages, options, FALSE, cancelled)
         /\ UNCHANGED httpCalls

\* prepareLanguageModelChat up to its return or to the await of testConnection
PrepareLanguageModelChat ==
    /\ provider.prepare.pc = "idle"
    /\ calls[1].pc = "idle"
    /\ \E silent \in BOOLEAN, cancelled \in BOOLEAN :
        IF ~IsConfigured
        THEN /\ provider' = [provider EXCEPT !.prepare =
                    [pc |-> "done", silent |-> silent, configured |-> FALSE,
                     result |-> ReturnedList(<<>>)]]
             /\ UNCHANGED <<calls, httpCalls, ipcCalls>>
        ELSE IF silent
        THEN /\ provider' = [provider EXCEPT !.prepare =
                    [pc |-> "done", silent |-> TRUE, configured |-> TRUE,
                     result |-> ReturnedList(Catalog)]]
             /\ UNCHANGED <<calls, httpCalls, ipcCalls>>
        ELSE /\ provider' = [provider EXCEPT !.prepare =
                    [pc |-> "testing", silent |-> FALSE, configured |-> TRUE,
                     result |-> NotReturned]]
             /\ ClientTestConnection(cancelled)
    /\ UNCHANGED <<deployment, configuration, listeners, wire, dec, chan, migration>>

\* the catalog returned whatever the connectivity test answered
PrepareSettleIgnoringTest ==
    /\ provider.prepare.pc = "testing"
    /\ calls[1].pc = "done"
    /\ provider' = [provider EXCEPT !.prepare.pc = "done",
                                    !.prepare.result = ReturnedList(Catalog)]
    /\ UNCHANGED <<deployment, configuration, calls, httpCalls, ipcCalls, listeners, wire, dec, chan, migration>>

\* testConnection settled: the catalog when it answered true, the empty list
\* when it answered false and, in the catch, when it threw
PrepareSettle ==
    /\ provider.prepare.pc = "testing"
    /\ calls[1].pc = "done"
    /\ provider' = [provider EXCEPT !.prepare.pc = "done",
                                    !.prepare.result =
                                        IF calls[1].outcome.kind = "true"
                                        THEN ReturnedList(Catalog) ELSE ReturnedList(<<>>)]
    /\ UNCHANGED <<deployment, configuration, calls, httpCalls, ipcCalls, listeners, wire, dec, chan, migration>>

\* sendChatRequest up to the await of sendMessage
SendChatRequest ==
    /\ provider.chat.pc = "idle"
    /\ calls[2].pc = "idle"
    /\ \E i \in 1..Len(ClaudeModels), messages \in ChatMessageLists,
          options \in ChatOptions, cancelled \in BOOLEAN :
        LET modelId == Identifier(ClaudeModels[i])
        IN /\ provider' = [provider EXCEPT !.chat =
                    [pc |-> "waiting", modelId |-> modelId,
                     actualModelId |-> Join(ReplaceFirst(modelId, "claude-")),
                     options |-> options]]
           /\ ClientSendMessage(ConvertMessagesToClaude(messages),
                                Join(ReplaceFirst(modelId, "claude-")),
                                ProviderOptions(options), cancelled)
    /\ UNCHANGED <<deployment, configuration, wire, dec, chan, migration>>

\* sendMessage settled: the { stream, result } made of the first text, or the
\* error rethrown
ChatSettle ==
    /\ provider.chat.pc = "waiting"
    /\ calls[2].pc = "done"
    /\ provider' =
            IF calls[2].outcome.kind = "response"
            THEN [provider EXCEPT !.chat.pc = "returned",
                                  !.handle = [created |-> TRUE,
                                              text |-> ResponseText(calls[2].outcome.response),
                                              generators |-> <<>>, yielded |-> <<>>]]
            ELSE [provider EXCEPT !.chat.pc = "thrown"]
    /\ UNCHANGED <<deployment, configuration, calls, httpCalls, ipcCalls, listeners, wire, dec, chan, migration>>

\* a consumer starts to iterate response.stream: stream[Symbol.asyncIterator]()
\* runs the async function*, which gives a generator at its start
StreamIterate ==
    /\ provider.handle.created
    /\ Len(provider.handle.generators) < MaxIterations
    /\ provider' = [provider EXCEPT !.handle.generators = Append(@, "start")]
    /\ UNCHANGED <<deployment, configuration, calls, httpCalls, ipcCalls, listeners, wire, dec, chan, migration>>

\* next() on a generator: at its start it yields { type: 'text', value: text },
\* after the yield it returns and is done
StreamNext(g) ==
    /\ g \in 1..Len(provider.handle.generators)
    /\ provider.handle.generators[g] # "done"
    /\ provider' =
            IF provider.handle.generators[g] = "start"
            THEN [provider EXCEPT !.handle.generators[g] = "yielded",
                                  !.handle.yielded = Append(@, provider.handle.text)]
            ELSE [provider EXCEPT !.handle.generators[g] = "done"]
    /\ UNCHANGED <<deployment, configuration, calls, httpCalls, ipcCalls, listeners, wire, dec, chan, migration>>

InitProvider == InitConfig

NextProvider ==
    \/ \E cfg \in MainConfigs : Configure(cfg)
    \/ PrepareLanguageModelChat
    \/ PrepareSettle
    \/ DirectHttpResolve(1)
    \/ DirectHttpReject(1)
    \/ ExecReceive(1)
    \/ ExecHttpResolve(1)
    \/ ExecHttpReject(1)
    \/ IpcReply(1)
    \/ Cancel(1)

SpecProvider == InitProvider /\ [][NextProvider]_vars

NextChat ==
    \/ \E cfg \in RichConfigs : Configure(cfg)
    \/ SendChatRequest
    \/ ChatSettle
    \/ StreamIterate
    \/ \E g \in 1..MaxIterations : StreamNext(g)
    \/ DirectHttpResolve(2)
    \/ DirectHttpReject(2)
    \/ ExecReceive(2)
    \/ ExecHttpResolve(2)
    \/ ExecHttpReject(2)
    \/ IpcReply(2)
    \/ Cancel(2)

SpecChat == InitProvider /\ [][NextChat]_vars

-----------------------------------------------------------------------------
(* MigrationService.performAutomaticMigration *)

\* the awaits of the withProgress task, in the order of the code
MigrationSteps ==
    <<"copySettings", "copyKeybindings", "copySnippets", "installExtensions", "copyOtherFiles">>

\* How a step can end.  "absent": fileService.exists answered false;
\* "copied": the files were read and written; "failed": a file-service call
\* of the step rejected and the step's catch logged it.  installExtensions
\* can also end with extensions.json unparsable ("parseFailed") or with
\* installFromGallery rejecting for an extension ("installFailed"), each
\* caught by a catch of its own inside the step.
StepResults(step) ==
    IF step = "installExtensions"
    THEN {"absent", "copied", "parseFailed", "installFailed", "failed"}
    ELSE {"absent", "copied", "failed"}

\* throw new Error(`Installation ${installation.name} does not exist`)
DoesNotExist == Error("Installation does not exist", 0, "")

\* the error a step's file-service or extension-service call rejects with
StepError == Error("Step failed", 0, "")

InitMigration ==
    /\ deployment = "direct"
    /\ configuration = Undefined
    /\ calls = [c \in CallIds |-> IdleCall]
    /\ httpCalls = 0
    /\ ipcCalls = 0
    /\ listeners = {}
    /\ wire = WireIdle
    /\ dec = DecIdle
    /\ chan = ChanIdle
    /\ provider = NoProvider
    /\ migration = MigrationIdle

\* performAutomaticMigration(installation) up to the first await of the task
PerformAutomaticMigration ==
    /\ migration.pc = "idle"
    /\ \E exists \in BOOLEAN :
        migration' = IF ~exists
                     THEN [migration EXCEPT !.pc = "failed", !.outcome = Thrown(DoesNotExist)]
                     ELSE [migration EXCEPT !.pc = MigrationSteps[1], !.exists = TRUE]
    /\ UNCHANGED <<deployment, configuration, calls, httpCalls, ipcCalls, listeners, wire, dec, chan, provider>>

\* the i-th step from its call to its return: whatever happens inside its
\* try, the step returns and the task goes on to the next await, or after the
\* last step to the notification
RunStep(i) ==
    /\ migration.pc = MigrationSteps[i]
    /\ \E result \in StepResults(MigrationSteps[i]) :
        migration' = [migration EXCEPT !.pc = (MigrationSteps \o <<"notify">>)[i + 1],
                                       !.ran = Append(@, MigrationSteps[i]),
                                       !.results = Append(@, result)]
    /\ UNCHANGED <<deployment, configuration, calls, httpCalls, ipcCalls, listeners, wire, dec, chan, provider>>

CopySettings == RunStep(1)

CopyKeybindings == RunStep(2)

\* copySnippets without its try: a rejected fileService call leaves the task,
\* and performAutomaticMigration logs the error and rethrows it
CopySnippetsRethrows ==
    /\ migration.pc = MigrationSteps[3]
    /\ \E result \in StepResults(MigrationSteps[3]) :
        migration' = IF result = "failed"
                     THEN [migration EXCEPT !.pc = "failed",
                                            !.ran = Append(@, MigrationSteps[3]),
                                            !.results = Append(@, result),
                                            !.outcome = Thrown(StepError)]
                     ELSE [migration EXCEPT !.pc = (MigrationSteps \o <<"notify">>)[4],
                                            !.ran = Append(@, MigrationSteps[3]),
                                            !.results = Append(@, result)]
    /\ UNCHANGED <<deployment, configuration, calls, httpCalls, ipcCalls, listeners, wire, dec, chan, provider>>

CopySnippets == RunStep(3)

InstallExtensions == RunStep(4)

CopyOtherFiles == RunStep(5)

\* the task has resolved: the success notification, the scheduled reload, and
\* the return
MigrationNotify ==
    /\ migration.pc = "notify"
    /\ migration' = [migration EXCEPT !.pc = "done", !.notified = TRUE, !.restart = TRUE,
                                      !.outcome = Resolved(TRUE)]
    /\ UNCHANGED <<deployment, configuration, calls, httpCalls, ipcCalls, listeners, wire, dec, chan, provider>>

NextMigration ==
    \/ PerformAutomaticMigration
    \/ CopySettings
    \/ CopyKeybindings
    \/ CopySnippets
    \/ InstallExtensions
    \/ CopyOtherFiles
    \/ MigrationNotify

SpecMigration == InitMigration /\ [][NextMigration]_vars

-----------------------------------------------------------------------------
(* Properties of sendMessage and testConnection, checked under Spec *)

\* the invalid arguments errors of ClaudeChannel.call
ArityErrors ==
    { "Invalid arguments for command",
      "testConnection requires config argument",
      "sendMessage requires config and messages arguments",
      "sendStreamingMessage requires config and messages arguments",
      "sendStreamingMessage requires config, messages, and onProgress arguments" }

\* C1: a sendMessage call made while the stored configuration has no non-empty
\* apiKey issues no network request and fails with the 'not configured' error.
C1_NoRequestWhenNotConfigured ==
    \A c \in CallIds :
        (calls[c].op = "send" /\ ~calls[c].configured) =>
            /\ calls[c].request = Undefined
            /\ calls[c].pc = "done" => calls[c].outcome = Thrown(NotConfigured)

\* C2: a sendMessage call made with a token that is already signalled issues
\* no network request and no cross-process call, and fails with Cancelled.
C2_NoRequestWhenCancelledBefore ==
    \A c \in CallIds :
        (calls[c].op = "send" /\ calls[c].configured /\ calls[c].preCancelled) =>
            /\ calls[c].via = "none"
            /\ calls[c].request = Undefined
            /\ calls[c].pc = "done" => calls[c].outcome = Thrown(Cancelled)

\* C3: a sendMessage call whose token was signalled while it was suspended on
\* the network call or on the cross-process reply never returns a Response.
C3_NoResponseAfterCancel ==
    \A c \in CallIds :
        (calls[c].op = "send" /\ calls[c].pc = "done" /\ calls[c].waitCancelled) =>
            calls[c].outcome.kind # "response"

\* C4, as claimed: whenever the HTTP reply has a status >= 400, sendMessage
\* fails with the API error that carries the status and the body text.
C4_ApiErrorAlways ==
    \A c \in CallIds :
        (calls[c].op = "send" /\ calls[c].pc = "done" /\ calls[c].httpStatus >= 400) =>
            calls[c].outcome = Thrown(ApiError(calls[c].httpStatus, calls[c].httpBody))

\* C4, amended: whenever the HTTP reply has a status >= 400, sendMessage
\* returns no Response; it fails with the API error that carries the status
\* and the body text, or with Cancelled when the token is signalled by then.
C4_ApiErrorUnlessCancelled ==
    \A c \in CallIds :
        (calls[c].op = "send" /\ calls[c].pc = "done" /\ calls[c].httpStatus >= 400) =>
            calls[c].outcome =
                IF calls[c].cancelled THEN Thrown(Cancelled)
                ELSE Thrown(ApiError(calls[c].httpStatus, calls[c].httpBody))

\* a reply of status 401 to a streaming call reaches its caller as the API error
C4_Witness ==
    \E c \in CallIds :
        /\ calls[c].op = "send" /\ calls[c].pc = "done" /\ ~calls[c].cancelled
        /\ calls[c].via = "invoke"
        /\ calls[c].httpStatus = 401
        /\ calls[c].outcome = Thrown(ApiError(401, ErrorText))

\* the fields a Response must have
HasRequiredFields(r) ==
    /\ r.id # Undefined
    /\ r.type = Some("message")
    /\ r.role = Some("assistant")
    /\ r.content # Undefined
    /\ r.model # Undefined
    /\ r.usage # Undefined
    /\ r.usage[1].input_tokens # Undefined
    /\ r.usage[1].output_tokens # Undefined

\* C5: every Response that sendMessage returns has all the required fields.
C5_ResponsesAreComplete ==
    \A c \in CallIds :
        (calls[c].op = "send" /\ calls[c].outcome.kind = "response") =>
            HasRequiredFields(calls[c].outcome.response)

\* C6: testConnection resolves to a boolean, to true only when the request
\* succeeded and to false on a cancellation, and the executor's
\* testConnection behind the bridge never rejects.
C6_TestConnectionNeverRejects ==
    \A c \in CallIds :
        /\ (calls[c].op = "test" /\ calls[c].pc = "done") =>
                /\ calls[c].outcome.kind \in {"true", "false"}
                /\ calls[c].outcome.kind = "true" => calls[c].httpStatus = 200
        /\ calls[c].command = "testConnection" => calls[c].reply.kind # "error"

\* C9, as claimed: the wire request of a sendMessage call has stream = true
\* exactly when the caller gave an onProgress callback.
C9_StreamIffOnProgress ==
    \A c \in CallIds :
        (calls[c].op = "send" /\ calls[c].request # Undefined) =>
            (calls[c].request[1].stream <=> calls[c].onProgress)

\* C9, amended: the wire request has stream = true exactly when the caller
\* gave an onProgress callback and the call went to the main process through
\* ipcRenderer.invoke; the direct client and the channel fallback always
\* send stream = false.
C9_StreamIffOnProgressOverInvoke ==
    \A c \in CallIds :
        (calls[c].op = "send" /\ calls[c].request # Undefined) =>
            (calls[c].request[1].stream
                <=> (calls[c].onProgress /\ deployment = "ipcBridge"))

\* a streaming request was issued for a call with a progress callback
C9_Witness ==
    \E c \in CallIds :
        /\ calls[c].op = "send" /\ calls[c].onProgress
        /\ calls[c].via = "invoke"
        /\ calls[c].request # Undefined /\ calls[c].request[1].stream

\* the errors the channel raises of its own
BridgeErrors == { Error(e, 0, "") : e \in ArityErrors \cup {"Call not found"} }

\* C12: when the executor's sendMessage / sendStreamingMessage fails and the
\* caller's token is not signalled, the client's sendMessage fails with that
\* same error; a failure of the executor never becomes a Response, and the
\* only errors the bridge adds are 'Call not found' and the invalid arguments
\* errors.
C12_FailureTransparency ==
    \A c \in CallIds :
        (calls[c].op = "send" /\ calls[c].pc = "done" /\ calls[c].via \in {"channel", "invoke"}) =>
            /\ calls[c].reply.kind = "error" =>
                    /\ calls[c].outcome.kind = "error"
                    /\ ~calls[c].cancelled => calls[c].outcome = calls[c].reply
            /\ calls[c].outcome.kind = "error" =>
                    /\ calls[c].reply.kind = "error"
                    /\ calls[c].outcome.error \in {calls[c].reply.error, Cancelled}
            /\ (calls[c].reply.kind = "error" /\ calls[c].request = Undefined) =>
                    calls[c].reply.error \in BridgeErrors \cup {ApiKeyRequired}

\* a failure of fetch in the executor reaches the caller of a streaming call unchanged
C12_Witness ==
    \E c \in CallIds :
        /\ calls[c].op = "send" /\ calls[c].pc = "done" /\ ~calls[c].cancelled
        /\ calls[c].via = "invoke"
        /\ calls[c].reply = Thrown(TransportError)
        /\ calls[c].outcome = Thrown(TransportError)

\* the sendMessage calls with a progress callback that have not settled
StreamingInFlight ==
    { c \in CallIds : calls[c].op = "send" /\ calls[c].onProgress
                        /\ calls[c].pc \notin {"idle", "done"} }

\* C13, as claimed: the registered progress listeners are those of the
\* streaming calls in flight, one each.
C13_ListenersAreCallsInFlight == listeners = StreamingInFlight

\* C13, amended: where electronBridge.ipcRenderer exists, the registered
\* progress listeners are those of the streaming calls in flight, one each,
\* from before the cross-process call is issued until the call settles by
\* success or by error; where it does not exist no listener is ever registered.
C13_ListenersWithBridge ==
    listeners = IF HasBridge THEN StreamingInFlight ELSE {}

\* a streaming call has failed and its listener is gone, while the listener of
\* another streaming call, still in flight, is registered
C13_Witness ==
    \E c, d \in CallIds :
        /\ calls[c].via = "invoke" /\ calls[c].pc = "done" /\ calls[c].outcome.kind = "error"
        /\ calls[d].via = "invoke" /\ calls[d].pc = "execRead"
        /\ listeners = {d}

\* C14: when a streaming sendMessage call returns a Response over
\* ipcRenderer.invoke, the fragments its onProgress has received are, in
\* order, the fragments the executor emitted for it: their concatenation is
\* the text of the Response.
C14_ProgressIsResponseText ==
    \A c \in CallIds :
        (/\ calls[c].op = "send" /\ calls[c].onProgress /\ calls[c].via = "invoke"
         /\ calls[c].pc = "done" /\ calls[c].outcome.kind = "response") =>
            /\ calls[c].progress = calls[c].decoder.emitted
            /\ Some(<<Concat(calls[c].progress)>>) = calls[c].outcome.response.content

\* C29: a streaming call's onProgress receives fragments of its own
\* response only: what it has received so far is, in order, what the
\* executor has emitted for that call so far, with nothing that was emitted
\* for another call in flight.
C29_StreamsIsolated ==
    \A c \in CallIds :
        (calls[c].op = "send" /\ calls[c].onProgress /\ calls[c].via = "invoke") =>
            /\ Len(calls[c].progress) <= Len(calls[c].decoder.emitted)
            /\ calls[c].progress = SubSeq(calls[c].decoder.emitted, 1, Len(calls[c].progress))

\* C20: whenever a sendMessage call that was dispatched fails and its token
\* is signalled by then, the error it fails with is Cancelled, whether the
\* failure is an HTTP status, a parse error or a rejection of the transport.
C20_CancelledTakesPrecedence ==
    \A c \in CallIds :
        (/\ calls[c].op = "send" /\ calls[c].pc = "done" /\ calls[c].via # "none"
         /\ calls[c].outcome.kind = "error" /\ calls[c].cancelled) =>
            calls[c].outcome = Thrown(Cancelled)

-----------------------------------------------------------------------------
(* Properties of the request construction, checked under SpecWire *)

SystemPositions(messages) == { i \in 1..Len(messages) : messages[i].role = "system" }

RemoveAt(seq, i) == SubSeq(seq, 1, i - 1) \o SubSeq(seq, i + 1, Len(seq))

\* C7: with at most one system message in the input, `system` is that
\* message's content and `messages` is the input without it, in order; with
\* none, `system` is undefined and `messages` is the input.
C7_SystemMessageSplit ==
    wire.pc = "built" =>
        LET sys == SystemPositions(wire.messages)
            req == wire.request[1]
        IN /\ sys = {} => (req.system = Undefined /\ req.messages = wire.messages)
           /\ \A i \in sys :
                sys = {i} =>
                    /\ req.system = Some(wire.messages[i].content)
                    /\ req.messages = RemoveAt(wire.messages, i)

\* a request built across the bridge from a list with one system message in the middle
C7_Witness ==
    /\ wire.pc = "built"
    /\ deployment = "ipcBridge"
    /\ Len(wire.messages) = 3
    /\ SystemPositions(wire.messages) = {2}
    /\ wire.request[1].system = Some("b")
    /\ Len(wire.request[1].messages) = 2

\* the position of the first system message of a list that has one
FirstSystem(messages) ==
    CHOOSE i \in SystemPositions(messages) : \A j \in SystemPositions(messages) : i <= j

\* C26: with two or more system messages in the input, `system` is the
\* content of the first of them and `messages` is the input without that one
\* message: the later system messages stay, in their place.
C26_OnlyFirstSystemRemoved ==
    (wire.pc = "built" /\ Cardinality(SystemPositions(wire.messages)) >= 2) =>
        /\ wire.request[1].system =
                Some(wire.messages[FirstSystem(wire.messages)].content)
        /\ wire.request[1].messages =
                RemoveAt(wire.messages, FirstSystem(wire.messages))

\* C28: the model of the wire request is the model argument of
\* sendMessage, on the direct path and across the bridge.
C28_WireModelIsCallerModel ==
    wire.pc = "built" => wire.request[1].model = wire.model

\* options if supplied, else the stored value if set, else the default
Precedence(option, stored, default) ==
    IF option # Undefined THEN option
    ELSE IF stored # Undefined THEN stored
    ELSE Some(default)

\* C8: max_tokens is options.maxTokens if supplied, else the stored maxTokens
\* if set, else 4096; temperature is options.temperature if supplied (an
\* explicit 0 included), else the stored temperature if set, else 0.7.
C8_NumericPrecedence ==
    wire.pc = "built" =>
        /\ wire.request[1].max_tokens =
                Precedence(wire.options.maxTokens, configuration[1].maxTokens, 4096)
        /\ wire.request[1].temperature =
                Precedence(wire.options.temperature, configuration[1].temperature, 7)

\* an explicit temperature of 0 wins over a stored 0.5, across the bridge,
\* while the stored maxTokens fills in for the absent option
C8_Witness ==
    /\ wire.pc = "built"
    /\ deployment = "ipcChannel"
    /\ wire.options = [maxTokens |-> Undefined, temperature |-> Some(0)]
    /\ configuration[1].maxTokens = Some(20)
    /\ configuration[1].temperature = Some(5)
    /\ wire.request[1].max_tokens = Some(20)
    /\ wire.request[1].temperature = Some(0)

-----------------------------------------------------------------------------
(* Properties of the streaming decoder, checked under SpecDecode *)

RECURSIVE DeltaTexts(_)
\* the non-empty text fragments of the content_block_delta lines of a body, in order
DeltaTexts(lines) ==
    IF lines = <<>> THEN <<>>
    ELSE LET l == Head(lines)
         IN IF /\ l.marker /\ l.payload = "json" /\ l.type = "content_block_delta"
               /\ l.text # Undefined /\ l.text # Some("")
            THEN <<l.text[1]>> \o DeltaTexts(Tail(lines))
            ELSE DeltaTexts(Tail(lines))

\* C10: when the decoder returns, the progress callback has been invoked once
\* per text fragment of the body's content_block_delta lines, in arrival
\* order, and the text of the Response is the concatenation of those fragments.
C10_DecodeComplete ==
    dec.pc = "done" =>
        /\ dec.st.emitted = DeltaTexts(dec.lines)
        /\ dec.result.response.content = Some(<<Concat(DeltaTexts(dec.lines))>>)

RECURSIVE Received(_)
\* the lines the decoder is given, read after read: each chunk.split('\n')
Received(reads) ==
    IF reads = <<>> THEN <<>> ELSE Head(reads) \o Received(Tail(reads))

RECURSIVE BeforeDone(_)
\* the lines given to the decoder before the first 'data: [DONE]'
BeforeDone(lines) ==
    IF lines = <<>> THEN <<>>
    ELSE IF Head(lines).marker /\ Head(lines).payload = "[DONE]" THEN <<>>
    ELSE <<Head(lines)>> \o BeforeDone(Tail(lines))

\* C23: 'data: [DONE]' ends decoding: when the decoder returns, the progress
\* calls and the text are those of the lines given to it before the first
\* [DONE] line, and no line after it has been decoded.
C23_DoneTerminates ==
    dec.pc = "done" =>
        /\ dec.result.kind = "response"
        /\ dec.st.emitted = DeltaTexts(BeforeDone(Received(dec.allReads)))
        /\ dec.result.response.content =
                Some(<<Concat(DeltaTexts(BeforeDone(Received(dec.allReads))))>>)

\* C24: the result does not depend on how the body is cut into reads: the
\* progress calls, the text and the usage are those of the same body given
\* in one read.
C24_PartitionIndependent ==
    dec.pc = "done" =>
        /\ dec.st = ProcessChunk(DecoderStart, dec.lines)
        /\ dec.result = Returned(StreamedResponse(ProcessChunk(DecoderStart, dec.lines).fullContent,
                                                  ProcessChunk(DecoderStart, dec.lines).usage))

\* C25: once acquired, the reader is released exactly once on every way out:
\* it is held, and not yet released, while the loop runs; when the function
\* has returned or thrown after acquiring it, it is not held and
\* releaseLock() has been called once. Without a reader nothing is released.
C25_ReaderReleasedOnce ==
    /\ dec.pc = "reading" => dec.held /\ dec.releases = 0
    /\ dec.pc \in {"done", "failed"} /\ dec.hasBody => ~dec.held /\ dec.releases = 1
    /\ dec.pc \in {"start", "failed"} /\ ~dec.hasBody => ~dec.held /\ dec.releases = 0

\* a read was rejected after a chunk had been decoded, and the reader is free
C25_Witness ==
    /\ dec.pc = "failed"
    /\ dec.result = Thrown(TransportError)
    /\ dec.st.emitted # <<>>
    /\ dec.releases = 1 /\ ~dec.held

-----------------------------------------------------------------------------
(* Properties of the configuration, checked under SpecConfig *)

\* the latest configure() was given a non-empty apiKey
LastConfigHasKey == provider.lastConfig # Undefined /\ provider.lastConfig[1].apiKey # ""

\* an isConfigured() call changes nothing but the answer its caller holds
ProbeStep ==
    provider'.probe # provider.probe =>
        /\ provider'.probe = Some(IsConfigured)
        /\ UNCHANGED <<configuration, calls, httpCalls, ipcCalls, listeners>>
        /\ provider' = [provider EXCEPT !.probe = provider'.probe]

\* C17: in every state isConfigured() is true exactly when the latest
\* configure() was given a non-empty apiKey, false before the first
\* configure(), and calling it changes no state.
C17_IsConfiguredIffKey ==
    /\ [](IsConfigured <=> LastConfigHasKey)
    /\ [][ProbeStep]_vars

\* after a configure() with a key and a later one without, isConfigured() answered false
C17_Witness ==
    /\ provider.present
    /\ provider.configures >= 2
    /\ provider.seen = Some(FALSE)
    /\ provider.lastConfig # Undefined /\ provider.lastConfig[1].apiKey = ""
    /\ provider.probe = Some(FALSE)

\* config.baseUrl || 'https://api.anthropic.com', as a table
BaseUrlOf(cfg) ==
    IF cfg.baseUrl = Undefined \/ cfg.baseUrl = Some("") THEN DefaultBaseUrl ELSE cfg.baseUrl[1]

\* the request of a call is the one built from the configuration stored when
\* the call was made
BuiltFromConfigAtCall ==
    \A c \in CallIds :
        calls[c].request # Undefined =>
            LET cfg == calls[c].config[1]
                req == calls[c].request[1]
            IN /\ req.apiKey = cfg.apiKey
               /\ req.url = BaseUrlOf(cfg) \o "/v1/messages"
               /\ calls[c].op = "send" =>
                    /\ req.max_tokens = Precedence(Undefined, cfg.maxTokens, 4096)
                    /\ req.temperature = Precedence(Undefined, cfg.temperature, 7)

\* a call is made under the configuration of the latest configure()
CallReadsLatestConfig ==
    \A c \in CallIds :
        (calls[c].pc = "idle" /\ calls'[c].pc # "idle") =>
            calls'[c].config = provider.lastConfig

\* a request, once issued, stays as it is, and configure() touches no call
ConfigureLeavesCalls ==
    /\ \A c \in CallIds :
            calls[c].request # Undefined => calls'[c].request = calls[c].request
    /\ configuration' # configuration => calls' = calls

\* C18: a call made after configure(c) returned and before the next
\* configure builds its request (apiKey, url, fallback max_tokens and
\* temperature) from c, and a configure() while a call is in flight does not
\* change, cancel or fail the request that call has issued.
C18_ReadAfterWrite ==
    /\ []BuiltFromConfigAtCall
    /\ [][CallReadsLatestConfig /\ ConfigureLeavesCalls]_vars

\* a call across the bridge made under one configuration is in flight with its
\* request built from it, while another configuration has been stored since
C18_Witness ==
    \E c \in CallIds :
        /\ calls[c].pc = "execHttp"
        /\ calls[c].config # configuration
        /\ calls[c].config[1].apiKey = "sk-y"
        /\ calls[c].request[1].apiKey = "sk-y"
        /\ calls[c].request[1].max_tokens = Some(20)
        /\ calls[c].request[1].url = "https://proxy.local/v1/messages"

\* what one configure() call does to the events: one fire(), one onDidChange
\* of the provider, and a listener that finds the new configuration stored
ConfigureStep ==
    provider'.configures # provider.configures =>
        /\ provider'.configures = provider.configures + 1
        /\ provider'.fired = provider.fired + 1
        /\ provider'.changes = provider.changes + 1
        /\ provider'.seen = Some(LastConfigHasKey')
        /\ provider'.seen = Some(IsConfigured')

\* C19: every configure() fires the configuration-changed event exactly
\* once, before it returns and after the new configuration is stored, so
\* that a listener asking isConfigured() sees the new value; the provider
\* relays each event as one onDidChange; after n configure() calls n events
\* have been seen.
C19_OneEventPerConfigure ==
    /\ [](provider.fired = provider.configures /\ provider.changes = provider.configures)
    /\ [][ConfigureStep]_vars

\* the third configure() stored a configuration without a key over one with a
\* key, and the listener found it stored
C19_Witness ==
    /\ provider.present
    /\ provider.configures = 3 /\ provider.fired = 3 /\ provider.changes = 3
    /\ provider.seen = Some(FALSE)
    /\ \E c \in CallIds : calls[c].configured

-----------------------------------------------------------------------------
(* Properties of the provider, checked under SpecProvider and SpecChat *)

\* C15: prepareLanguageModelChat never throws; it returns the whole catalog
\* exactly when the client is configured and either options.silent is true
\* or the connectivity test answered true, and the empty list otherwise;
\* with options.silent it makes no connectivity test.
C15_PrepareReturnsCatalogIff ==
    provider.prepare.pc = "done" =>
        LET p == provider.prepare
            full == p.configured /\ (p.silent \/ calls[1].outcome.kind = "true")
        IN /\ p.result.kind = "returned"
           /\ p.result.models = IF full THEN Catalog ELSE <<>>
           /\ Len(Catalog) = 3
           /\ (p.silent \/ ~p.configured) =>
                    calls[1].pc = "idle" /\ calls[1].via = "none" /\ calls[1].request = Undefined

\* a connectivity test that met a reply of status 401 gave the empty list
C15_Witness ==
    /\ provider.present
    /\ provider.prepare.pc = "done"
    /\ provider.prepare.configured /\ ~provider.prepare.silent
    /\ calls[1].httpStatus = 401
    /\ calls[1].outcome = Resolved(FALSE)
    /\ provider.prepare.result = ReturnedList(<<>>)

\* C16: over its whole lifetime the response stream of sendChatRequest yields
\* one item, the text of the first content block or the empty string, and
\* ends; a second iteration of the same handle yields nothing more.
C16_StreamIsOneShot ==
    (provider.present /\ provider.handle.created) =>
        /\ Len(provider.handle.yielded) =< 1
        /\ \A i \in 1..Len(provider.handle.yielded) :
                provider.handle.yielded[i] = ResponseText(calls[2].outcome.response)
        /\ (\E g \in 1..Len(provider.handle.generators) :
                provider.handle.generators[g] = "done") =>
                    Len(provider.handle.yielded) = 1

\* C21: for a sendChatRequest whose options carry no maxTokens and no
\* temperature, the wire request has the stored configuration's maxTokens
\* and temperature when they are set, and 4096 and 0.7 only when they are not.
C21_ProviderUsesStoredValues ==
    (/\ provider.present /\ provider.chat.pc # "idle"
     /\ provider.chat.options = NoOptions /\ calls[2].request # Undefined) =>
        /\ calls[2].request[1].max_tokens =
                Precedence(Undefined, calls[2].config[1].maxTokens, 4096)
        /\ calls[2].request[1].temperature =
                Precedence(Undefined, calls[2].config[1].temperature, 7)

\* C27: the identifier of a catalog entry, given to sendChatRequest, comes
\* back as that entry's model id: the provider's actualModelId, and on the
\* direct path the model of the request, is the key of CLAUDE_MODELS the
\* identifier was made from; and no two catalog entries share an identifier.
C27_IdentifierRoundTrip ==
    /\ \A i, j \in 1..Len(Catalog) : Catalog[i] = Catalog[j] => i = j
    /\ (provider.present /\ provider.chat.pc # "idle") =>
        \E i \in 1..Len(ClaudeModels) :
            /\ Join(provider.chat.modelId) = Catalog[i]
            /\ provider.chat.actualModelId = Join(ClaudeModels[i])
            /\ (deployment = "direct" /\ calls[2].request # Undefined) =>
                    calls[2].request[1].model = Join(ClaudeModels[i])

\* a request for the second catalog entry has gone out on the direct path
C27_Witness ==
    /\ provider.present /\ provider.chat.pc = "waiting"
    /\ deployment = "direct"
    /\ Join(provider.chat.modelId) = "claude-claude-3-7-sonnet-20250219"
    /\ calls[2].request # Undefined
    /\ calls[2].request[1].model = "claude-3-7-sonnet-20250219"

-----------------------------------------------------------------------------
(* Properties of performAutomaticMigration, checked under SpecMigration *)

\* C30: on an installation that exists, the five steps run in the order copy
\* settings, copy keybindings, copy snippets, install extensions, copy other
\* files, each once; however a step ended, the next one is the one awaited
\* after it, the operation never fails, and once the last step has returned
\* the success notification is issued and the operation returns.
C30_MigrationBestEffortOrdered ==
    migration.exists =>
        /\ migration.ran = SubSeq(MigrationSteps, 1, Len(migration.ran))
        /\ Len(migration.results) = Len(migration.ran)
        /\ migration.pc # "failed" /\ migration.outcome.kind # "error"
        /\ migration.pc \in {"notify", "done"} <=> migration.ran = MigrationSteps
        /\ migration.pc \notin {"notify", "done"} =>
                migration.pc = MigrationSteps[Len(migration.ran) + 1]
        /\ migration.notified <=> migration.pc = "done"
        /\ migration.pc = "done" => migration.outcome = Resolved(TRUE)

\* every step met an error, and the migration still ended with the notification
C30_Witness ==
    /\ migration.exists /\ migration.pc = "done"
    /\ migration.ran = MigrationSteps
    /\ migration.results = <<"failed", "failed", "failed", "installFailed", "failed">>
    /\ migration.notified

-----------------------------------------------------------------------------
(* Properties of ClaudeChannel.call, checked under SpecChannel *)

\* the least number of arguments of a command: config; config and messages
MinArity(command) == IF command = "testConnection" THEN 1 ELSE 2

\* C11: a call reaches the executor only if its command is testConnection,
\* sendMessage or sendStreamingMessage and its argument is an array of at
\* least the command's minimum arity; any other call fails with an invalid
\* arguments error, or with 'Call not found' for an unrecognized command.
C11_ChannelValidates ==
    chan.pc = "done" =>
        LET known == chan.command \in {"testConnection", "sendMessage", "sendStreamingMessage"}
            valid == /\ known
                     /\ chan.arg.kind = "array"
                     /\ Len(chan.arg.items) >= MinArity(chan.command)
        IN /\ chan.result.kind = "invoked" => valid
           /\ ~valid =>
                /\ chan.result.kind = "error"
                /\ \/ chan.result.error \in ArityErrors
                   \/ ~known /\ chan.result.error = "Call not found"

====
